---------------------------- MODULE Spec2Model ----------------------------
(***************************************************************************)
(* A model of the node part of feeless.                                    *)
(*                                                                         *)
(*   Spec      the Controller's message handlers                           *)
(*             (src/src/node/controller/messages.rs) as they are written,  *)
(*             called for two peer connections on one shared State.        *)
(*   SpecPeer  the Peer task of the node crate (src/node/src/peer.rs):     *)
(*             initial_handshake, then the dispatch loop of run.           *)
(*   SpecWork  Work::generate, attempt, verify and get_difficulty          *)
(*             (src/src/work.rs) for one call of generate.                 *)
(*   SpecVanity  Vanity::start, single_threaded_worker and collect         *)
(*             (src/src/vanity.rs): the worker threads, the result channel *)
(*             and the task that receives from it.                         *)
(*   SpecClassify  the arithmetic and the classification of                *)
(*             process_block_with_previous for one resolved previous block.*)
(*   SpecFrontier  the handlers again, with handle_frontier_req among      *)
(*             them, for the frontier_stream flag of each connection.      *)
(*   SpecStart  one call of Vanity::start, from validate to its return.    *)
(***************************************************************************)
EXTENDS Integers, Sequences, FiniteSets, TLC

VARIABLES
    cookies,              \* State: peer socket address -> cookie (NoCookie: none)
    ledger,               \* State: the stored blocks, each with its is_head flag
    validate_handshakes,  \* Controller.validate_handshakes, per connection
    frontier_stream,      \* Controller.frontier_stream, per connection
    last,                 \* the handler call made last: inputs, result, state before
    pcookies,             \* node crate State: peer socket address -> cookie
    ppc,                  \* Peer task: where it is in run
    pauth,                \* Peer task: a response was received and verified
    pdispatched,          \* Peer task: message type of the header matched last
    pread,                \* Peer task: how many headers run has received
    pdone,                \* Peer task: arrival number of the message handled last
    wpc,                  \* Work::generate: where the call is
    wsubject,             \* Work::generate: the subject it was called with
    wthreshold,           \* Work::generate: the threshold it was called with
    wwork,                \* Work::attempt: the candidate drawn last
    wverified,            \* Work::attempt: what verify returned for it
    wresult,              \* Work::generate: the work returned
    wattempts,            \* Work::generate: attempts made
    vrx,                  \* vanity: the receiver of the result channel, open or closed
    vchan,                \* vanity: results queued in the channel
    vpc,                  \* vanity worker: where it is in single_threaded_worker
    vi,                   \* vanity worker: attempts made in the current batch
    vsince,               \* vanity worker: attempts made since the receiver was closed
    vcounter,             \* vanity: the shared attempts counter
    vbuild,               \* vanity: debug build (overflow checks) or release build
    vcpc,                 \* Vanity::collect: where the call is
    vlimit0,              \* Vanity::collect: the limit it was called with
    vlimit,               \* Vanity::collect: its local `limit`
    vcollected,           \* Vanity::collect: Len(collected)
    kpc,                  \* process_block_with_previous: before or after the call
    kprev,                \* process_block_with_previous: previous_block.balance
    knew,                 \* process_block_with_previous: state_block.balance
    klink,                \* process_block_with_previous: state_block.link as received
    kres,                 \* process_block_with_previous: what the call came to
    mpc,                  \* Vanity::start: where the call is
    matches,              \* Vanity::start: self.matches
    tasks,                \* Vanity::start: the local `tasks`
    mchannel,             \* Vanity::start: the result channel has been created
    mspawned,             \* Vanity::start: threads spawned
    mret                  \* Vanity::start: what the call returned

ControllerVars == <<cookies, ledger, validate_handshakes, frontier_stream, last>>

PeerVars == <<pcookies, ppc, pauth, pdispatched, pread, pdone>>

vars == <<cookies, ledger, validate_handshakes, frontier_stream, last,
          pcookies, ppc, pauth, pdispatched, pread, pdone,
          wpc, wsubject, wthreshold, wwork, wverified, wresult, wattempts,
          vrx, vchan, vpc, vi, vsince, vcounter, vbuild, vcpc, vlimit0, vlimit, vcollected,
          kpc, kprev, knew, klink, kres,
          mpc, matches, tasks, mchannel, mspawned, mret>>

WorkVars == <<wpc, wsubject, wthreshold, wwork, wverified, wresult, wattempts>>

VanityVars == <<vrx, vchan, vpc, vi, vsince, vcounter, vbuild, vcpc, vlimit0, vlimit, vcollected>>

ClassifyVars == <<kpc, kprev, knew, klink, kres>>

StartVars == <<mpc, matches, tasks, mchannel, mspawned, mret>>

ToolVars == <<WorkVars, VanityVars, ClassifyVars, StartVars>>

(***************************************************************************)
(* Bounds and small value sets.                                            *)
(***************************************************************************)
MaxCookie == 2
MaxBalance == 1
MaxMessages == 2
WorkLen == 2
MaxByte == 1
DifficultyMod == 8
MaxAttempts == 3
CheckCount == 2
ChannelCap == 1
MaxLimit == 2
UsizeMod == 4
CounterCap == 4
MaxRai == 6
MaxPattern == 2
MaxTasks == 2

Addrs == {"p1", "p2"}
Keys == {"k1", "k2"}
Accounts == {"a1", "a2"}
NoCookie == 0
Cookies == 1..MaxCookie
Balances == 0..MaxBalance

(***************************************************************************)
(* Signatures.  A signature is the pair (signing key, signed message);     *)
(* Signature::zero() and any other bytes that verify under no key are      *)
(* ZeroSig.  verify accepts exactly the signatures made by the named key   *)
(* over the named message.                                                 *)
(***************************************************************************)
ZeroSig == [key |-> "zero", msg |-> 0]

\* A signer to compare with: it signs the empty message whatever it is given.
SignNothing(key, msg) == [key |-> key, msg |-> NoCookie]

Sign(key, msg) == [key |-> key, msg |-> msg]

Verify(public, msg, sig) == sig.key = public /\ sig.msg = msg

\* What a peer may send as a signature: nothing valid, or the first key's
\* signature over some cookie (valid or not according to the public key and
\* the cookie it is checked against).
HandshakeSigs == {ZeroSig} \cup {Sign("k1", c) : c \in Cookies}

(***************************************************************************)
(* State blocks.  previous = 0 is the all-zero Previous::Open.  The hash   *)
(* is an injective function of the hashed fields (account, previous,       *)
(* balance, link): distinct blocks have distinct hashes, and the signature *)
(* is not hashed.                                                          *)
(***************************************************************************)
AccIdx(a) == IF a = "a1" THEN 0 ELSE 1

Hash(b) == 1 + (((b.previous * 2 + AccIdx(b.account)) * (MaxBalance + 1) + b.balance) * 2 + b.link)

\* link: 0 is the all-zero link, 1 a link that names a block or an account.
OpenBlocks ==
    [account : Accounts, previous : {0}, balance : Balances, link : {0}]
        \cup [account : {"a1"}, previous : {0}, balance : Balances, link : {1}]

ParentHash == Hash([account |-> "a1", previous |-> 0, balance |-> MaxBalance, link |-> 0])

UnknownHash == Hash([account |-> "a2", previous |-> 0, balance |-> 0, link |-> 1])

ChildBlocks == [account : Accounts, previous : {ParentHash, UnknownHash}, balance : Balances, link : {0}]

Blocks == OpenBlocks \cup ChildBlocks

NoBlock == [account |-> "none", previous |-> 0, balance |-> 0, link |-> 0]

\* A published state block: the block and who signed its hash ("zero": nobody).
StateBlocks == {[block |-> b, signer |-> s] : b \in Blocks, s \in {"zero", "a1", "a2"}}

NoStateBlock == [block |-> NoBlock, signer |-> "zero"]

verify_self_signature(sb) == sb.signer = sb.block.account

LegacyHolders == {"Send", "Receive", "Open", "Change"}

(***************************************************************************)
(* State (the store and the cookie map).  Its implementation is not part   *)
(* of the sources at hand; the operations below are the LedgerStore        *)
(* contract and the cookie lifecycle of the specification.                 *)
(***************************************************************************)
get_block_by_hash(l, h) == {e \in l : e.hash = h}

StoredHashes(l) == {e.hash : e \in l}

HeadsOf(l, account) == {e \in l : e.is_head /\ e.block.account = account}

\* append_head: mark the block named as previous not-head, insert the block as head.
add_block(l, b) ==
    {IF e.hash = b.previous THEN [e EXCEPT !.is_head = FALSE] ELSE e : e \in {x \in l : x.hash # Hash(b)}}
        \cup {[hash |-> Hash(b), block |-> b, is_head |-> TRUE]}

set_cookie(cs, addr, cookie) == [cs EXCEPT ![addr] = cookie]

\* get-and-clear: what is returned, and the map afterwards.
cookie_for_socket_addr(cs, addr) == cs[addr]

\* A lookup that leaves the cookie where it is, to compare with.
cookies_kept_after_lookup(cs, addr) == cs

cookies_after_lookup(cs, addr) == [cs EXCEPT ![addr] = NoCookie]

(***************************************************************************)
(* Messages the Controller writes to its stream.                           *)
(***************************************************************************)
HeaderMsg(flag) == [kind |-> "header", flag |-> flag, cookie |-> 0, public |-> "none", sig |-> ZeroSig]

QueryMsg(c) == [kind |-> "query", flag |-> "none", cookie |-> c, public |-> "none", sig |-> ZeroSig]

ResponseMsg(public, sig) == [kind |-> "response", flag |-> "none", cookie |-> 0, public |-> public, sig |-> sig]

\* The bytes of a response body: the public key, then the signature.
PublicLen == 32

SignatureLen == 64

serialize(response) ==
    [i \in 1..PublicLen |-> response.public] \o [i \in 1..SignatureLen |-> response.sig]

NoResponse == [public |-> "none", signature |-> ZeroSig]

Responses == {NoResponse} \cup [public : Keys, signature : HandshakeSigs]

\* The first n of the writes a handler attempts succeed; the write after them
\* fails, when there is one.
Written(msgs, n) == SubSeq(msgs, 1, IF n < Len(msgs) THEN n ELSE Len(msgs))

(***************************************************************************)
(* What a handler call leaves in `last`.                                   *)
(***************************************************************************)
NoCall ==
    [op |-> "none", addr |-> "p1", ret |-> "Ok", is_query |-> FALSE, is_response |-> FALSE,
     query |-> NoCookie, response |-> NoResponse, holder |-> "none", state_block |-> NoStateBlock,
     store_ok |-> TRUE, sent |-> <<>>, report |-> "none", pre_cookies |-> [a \in Addrs |-> NoCookie], pre_ledger |-> {}]

Call(op, addr, ret) ==
    [NoCall EXCEPT !.op = op, !.addr = addr, !.ret = ret, !.pre_cookies = cookies, !.pre_ledger = ledger]

(***************************************************************************)
(* Controller::send_handshake                                              *)
(***************************************************************************)
\* io: how many of the writes succeed.  store_ok: whether set_cookie succeeds.
\* An order to compare with: the query body is written before the cookie is stored.
send_handshake_result_sends_first(cookie, io, store_ok) ==
    IF io < 1 THEN [ret |-> "Err", sent |-> <<>>, stored |-> FALSE]
    ELSE IF io < 2 THEN [ret |-> "Err", sent |-> <<HeaderMsg("query")>>, stored |-> FALSE]
    ELSE IF ~store_ok THEN [ret |-> "Err", sent |-> <<HeaderMsg("query"), QueryMsg(cookie)>>, stored |-> FALSE]
    ELSE [ret |-> "Ok", sent |-> <<HeaderMsg("query"), QueryMsg(cookie)>>, stored |-> TRUE]

send_handshake_result(cookie, io, store_ok) ==
    IF io < 1 THEN [ret |-> "Err", sent |-> <<>>, stored |-> FALSE]
    ELSE IF ~store_ok THEN [ret |-> "Err", sent |-> <<HeaderMsg("query")>>, stored |-> FALSE]
    ELSE IF io < 2 THEN [ret |-> "Err", sent |-> <<HeaderMsg("query")>>, stored |-> TRUE]
    ELSE [ret |-> "Ok", sent |-> <<HeaderMsg("query"), QueryMsg(cookie)>>, stored |-> TRUE]

send_handshake(a, cookie, io, store_ok) ==
    /\ LET r == send_handshake_result(cookie, io, store_ok) IN
        /\ cookies' = IF r.stored THEN set_cookie(cookies, a, cookie) ELSE cookies
        /\ last' = [Call("send_handshake", a, r.ret) EXCEPT !.query = cookie, !.store_ok = store_ok, !.sent = r.sent]
    /\ UNCHANGED <<ledger, validate_handshakes, frontier_stream, PeerVars, ToolVars>>

(***************************************************************************)
(* Controller::handle_handshake                                            *)
(***************************************************************************)
\* A stricter handler, to compare with: a response that finds no cookie is an error.
handle_handshake_result_strict(a, is_query, is_response, query, response, key, io, store_ok) ==
    IF is_query /\ query = NoCookie THEN [ret |-> "Panic", sent |-> <<>>, cookies |-> cookies]
    ELSE IF is_response /\ response = NoResponse THEN [ret |-> "Panic", sent |-> <<>>, cookies |-> cookies]
    ELSE IF is_response /\ (~store_ok \/ cookie_for_socket_addr(cookies, a) = NoCookie)
        THEN [ret |-> "Err", sent |-> <<>>, cookies |-> cookies]
    ELSE IF is_response /\ ~Verify(response.public, cookie_for_socket_addr(cookies, a), response.signature)
        THEN [ret |-> "Err", sent |-> <<>>, cookies |-> cookies_after_lookup(cookies, a)]
    ELSE [ret |-> IF is_query /\ io < 2 THEN "Err" ELSE "Ok",
          sent |-> IF is_query THEN Written(<<HeaderMsg("response"), ResponseMsg(key, Sign(key, query))>>, io) ELSE <<>>,
          cookies |-> IF is_response THEN cookies_after_lookup(cookies, a) ELSE cookies]

\* key: the key of the random seed the responder signs with.
handle_handshake_result(a, is_query, is_response, query, response, key, io, store_ok) ==
    LET respond == <<HeaderMsg("response"), ResponseMsg(key, Sign(key, query))>>
        cookie == cookie_for_socket_addr(cookies, a)
        looked == cookies_after_lookup(cookies, a)
    IN  IF is_query /\ query = NoCookie
            THEN [ret |-> "Panic", sent |-> <<>>, cookies |-> cookies]
        ELSE IF is_response /\ response = NoResponse
            THEN [ret |-> "Panic", sent |-> <<>>, cookies |-> cookies]
        ELSE IF is_response /\ ~store_ok
            THEN [ret |-> "Err", sent |-> <<>>, cookies |-> cookies]
        ELSE IF is_response /\ cookie = NoCookie
            THEN [ret |-> "Ok", sent |-> <<>>, cookies |-> looked]
        ELSE IF is_response /\ validate_handshakes[a] /\ ~Verify(response.public, cookie, response.signature)
            THEN [ret |-> "Err", sent |-> <<>>, cookies |-> looked]
        ELSE IF is_query
            THEN [ret |-> IF io < 2 THEN "Err" ELSE "Ok",
                  sent |-> Written(respond, io),
                  cookies |-> IF is_response THEN looked ELSE cookies]
        ELSE [ret |-> "Ok", sent |-> <<>>, cookies |-> IF is_response THEN looked ELSE cookies]

handle_handshake(a, is_query, is_response, query, response, key, io, store_ok) ==
    /\ LET r == handle_handshake_result(a, is_query, is_response, query, response, key, io, store_ok) IN
        /\ cookies' = r.cookies
        /\ last' = [Call("handle_handshake", a, r.ret) EXCEPT
                        !.is_query = is_query, !.is_response = is_response, !.query = query,
                        !.response = response, !.store_ok = store_ok, !.sent = r.sent]
    /\ UNCHANGED <<ledger, validate_handshakes, frontier_stream, PeerVars, ToolVars>>

(***************************************************************************)
(* The state block pipeline: what the future made by state_block_handler   *)
(* does when it is polled to completion on ledger l.  store_ok: whether    *)
(* State answers its calls.                                                *)
(***************************************************************************)
block_existed(l, h) == get_block_by_hash(l, h) # {}

\* Previous::Block: process_block_with_previous is called without .await and
\* its future dropped; Previous::Open: a TODO.  Either way Ok(()).
process_valid_existing_state_block(l, sb) == "Ok"

state_block_handler(l, sb, store_ok) ==
    IF ~store_ok
        THEN [ret |-> "Err", ledger |-> l, report |-> "none"]
    ELSE IF block_existed(l, Hash(sb.block))
        THEN [ret |-> "Ok", ledger |-> l, report |-> "exists"]
    ELSE IF ~verify_self_signature(sb)
        THEN [ret |-> "Ok", ledger |-> l, report |-> "badsig"]
    ELSE IF process_valid_existing_state_block(l, sb) # "Ok"
        THEN [ret |-> "Err", ledger |-> l, report |-> "none"]
    ELSE [ret |-> "Ok", ledger |-> add_block(l, sb.block), report |-> "will_add"]

(***************************************************************************)
(* Controller::handle_publish                                              *)
(***************************************************************************)
\* A future that is dropped without being polled runs none of its body.
Unpolled(l, future) == [ret |-> "Ok", ledger |-> l, report |-> "none"]

\* Two other handlers, to compare with: the add_block call of the
\* commented-out line 164 in place of the pipeline, and the pipeline awaited
\* with its result discarded.
handle_publish_result_adds(l, holder, sb, store_ok) ==
    IF holder \in LegacyHolders THEN [ret |-> "Panic", ledger |-> l, report |-> "none"]
    ELSE IF ~store_ok THEN [ret |-> "Err", ledger |-> l, report |-> "none"]
    ELSE [ret |-> "Ok", ledger |-> add_block(l, sb.block), report |-> "none"]

handle_publish_result_awaits(l, holder, sb, store_ok) ==
    IF holder \in LegacyHolders THEN [ret |-> "Panic", ledger |-> l, report |-> "none"]
    ELSE [state_block_handler(l, sb, store_ok) EXCEPT !.ret = "Ok"]

\* The State arm calls state_block_handler without .await: the future is bound
\* to _block and dropped when handle_publish returns Ok(()).  The four legacy
\* arms are todo!().
handle_publish_result(l, holder, sb, store_ok) ==
    IF holder \in LegacyHolders
        THEN [ret |-> "Panic", ledger |-> l, report |-> "none"]
        ELSE Unpolled(l, state_block_handler(l, sb, store_ok))

handle_publish(a, holder, sb, store_ok) ==
    /\ LET r == handle_publish_result(ledger, holder, sb, store_ok) IN
        /\ ledger' = r.ledger
        /\ last' = [Call("handle_publish", a, r.ret) EXCEPT
                        !.holder = holder, !.state_block = sb, !.store_ok = store_ok,
                        !.report = r.report]
    /\ UNCHANGED <<cookies, validate_handshakes, frontier_stream, PeerVars, ToolVars>>

(***************************************************************************)
(* The other handlers                                                      *)
(***************************************************************************)
handle_frontier_req(a) ==
    /\ frontier_stream' = [frontier_stream EXCEPT ![a] = TRUE]
    /\ last' = Call("handle_frontier_req", a, "Ok")
    /\ UNCHANGED <<cookies, ledger, validate_handshakes, PeerVars, ToolVars>>

\* handle_keepalive, handle_telemetry_req, handle_telemetry_ack,
\* handle_confirm_req, handle_confirm_ack, handle_frontier_resp: Ok(()) only.
NoopHandlers ==
    {"handle_keepalive", "handle_telemetry_req", "handle_telemetry_ack",
     "handle_confirm_req", "handle_confirm_ack", "handle_frontier_resp"}

\* A handler to compare with: handle_frontier_resp ends the frontier stream.
handle_noop_resets(a, op) ==
    /\ frontier_stream' = IF op = "handle_frontier_resp"
                             THEN [frontier_stream EXCEPT ![a] = FALSE]
                             ELSE frontier_stream
    /\ last' = Call(op, a, "Ok")
    /\ UNCHANGED <<cookies, ledger, validate_handshakes, PeerVars, ToolVars>>

handle_noop(a, op) ==
    /\ last' = Call(op, a, "Ok")
    /\ UNCHANGED <<cookies, ledger, validate_handshakes, frontier_stream, PeerVars, ToolVars>>

(***************************************************************************)
(* Spec: the handlers as written.                                          *)
(***************************************************************************)
NoResult == [ret |-> "none", link |-> "Unsure", amount |-> 0, underflow |-> FALSE]

\* No call of process_block_with_previous.
ClassifyIdle ==
    /\ kpc = "idle" /\ kprev = 0 /\ knew = 0 /\ klink = 0 /\ kres = NoResult

\* No call of start.
NoMatch == [kind |-> "none", s |-> <<>>]

StartIdle ==
    /\ mpc = "idle" /\ matches = NoMatch /\ tasks = 0
    /\ mchannel = FALSE /\ mspawned = 0 /\ mret = "none"

Workers == {"w1", "w2"}

\* No call of start or collect.
VanityIdle ==
    /\ vrx = "closed" /\ vchan = 0
    /\ vpc = [w \in Workers |-> "exited"]
    /\ vi = [w \in Workers |-> 0]
    /\ vsince = [w \in Workers |-> 0]
    /\ vcounter = 0 /\ vbuild = "debug"
    /\ vcpc = "none" /\ vlimit0 = 0 /\ vlimit = 0 /\ vcollected = 0

\* Work::zero
zero == [i \in 1..WorkLen |-> 0]

\* No call of generate.
WorkIdle ==
    /\ wpc = "idle" /\ wsubject = <<0>> /\ wthreshold = 0
    /\ wwork = zero /\ wverified = FALSE /\ wresult = zero /\ wattempts = 0

ControllerInit ==
    /\ cookies = [a \in Addrs |-> NoCookie]
    /\ ledger = {}
    /\ frontier_stream = [a \in Addrs |-> FALSE]
    /\ last = NoCall

PeerInit ==
    /\ pcookies = [a \in Addrs |-> NoCookie]
    /\ ppc = [a \in Addrs |-> "start"]
    /\ pauth = [a \in Addrs |-> FALSE]
    /\ pdispatched = [a \in Addrs |-> "none"]
    /\ pread = [a \in Addrs |-> 0]
    /\ pdone = [a \in Addrs |-> 0]

Init ==
    /\ ControllerInit
    /\ \E v \in BOOLEAN : validate_handshakes = [a \in Addrs |-> v]
    /\ PeerInit
    /\ WorkIdle
    /\ VanityIdle
    /\ ClassifyIdle
    /\ StartIdle

\* The inputs of a call are what the peer sent (any flags, any bodies, any
\* signature), the random values drawn in it, how many writes succeed and
\* whether State answers.  A body is absent when its flag is clear.
Next ==
    \E a \in Addrs :
        \/ \E c \in Cookies, io \in 0..2, ok \in BOOLEAN : send_handshake(a, c, io, ok)
        \/ \E q \in BOOLEAN, r \in BOOLEAN :
            \E c \in (IF q THEN {NoCookie} \cup Cookies ELSE {NoCookie}),
               resp \in (IF r THEN Responses ELSE {NoResponse}),
               kio \in (IF q THEN ({"k1"} \X (0..2)) \cup (Keys \X {2}) ELSE {<<"k1", 2>>}),
               ok \in (IF r THEN BOOLEAN ELSE {TRUE}) :
                handle_handshake(a, q, r, c, resp, kio[1], kio[2], ok)
        \/ \E h \in LegacyHolders : handle_publish(a, h, NoStateBlock, TRUE)
        \/ \E sb \in StateBlocks, ok \in BOOLEAN : handle_publish(a, "State", sb, ok)
        \/ \E op \in NoopHandlers : handle_noop(a, op)

Spec == Init /\ [][Next]_vars

(***************************************************************************)
(* SpecFrontier: every handler of messages.rs, handle_frontier_req among   *)
(* them.  No handler reads frontier_stream, so the inputs of the handshake *)
(* and publish handlers are kept to a few: writes and State calls succeed. *)
(***************************************************************************)
InitFrontier ==
    /\ ControllerInit
    /\ validate_handshakes = [a \in Addrs |-> TRUE]
    /\ PeerInit
    /\ WorkIdle
    /\ VanityIdle
    /\ ClassifyIdle
    /\ StartIdle

NextFrontier ==
    \E a \in Addrs :
        \/ handle_frontier_req(a)
        \/ \E op \in NoopHandlers : handle_noop(a, op)
        \/ \E c \in Cookies : send_handshake(a, c, 2, TRUE)
        \/ \E c \in Cookies : handle_handshake(a, TRUE, FALSE, c, NoResponse, "k1", 2, TRUE)
        \/ \E c \in Cookies :
            handle_handshake(a, FALSE, TRUE, NoCookie, [public |-> "k1", signature |-> Sign("k1", c)], "k1", 2, TRUE)
        \/ \E h \in LegacyHolders : handle_publish(a, h, NoStateBlock, TRUE)
        \/ \E b \in OpenBlocks : handle_publish(a, "State", [block |-> b, signer |-> b.account], TRUE)

SpecFrontier == InitFrontier /\ [][NextFrontier]_vars

(***************************************************************************)
(* The peer task of the node crate (node/src/peer.rs).  run sends the      *)
(* query of initial_handshake and then loops: it receives a header and     *)
(* matches on its message type.  The task holds no connection state beyond *)
(* its position in run; pauth records, for the properties, whether a       *)
(* response of the peer has been verified against our cookie.              *)
(***************************************************************************)
MessageTypes ==
    {"Keepalive", "Publish", "ConfirmReq", "ConfirmAck", "BulkPull", "BulkPush",
     "FrontierReq", "NodeIdHandshake", "BulkPullAccount", "TelemetryReq", "TelemetryAck"}

TodoTypes == MessageTypes \ {"NodeIdHandshake"}

\* io: how many of the two writes succeed.  An Err leaves run through `?`.
initial_handshake(a, cookie, io, store_ok) ==
    /\ ppc[a] = "start"
    /\ pcookies' = IF io >= 1 /\ store_ok THEN set_cookie(pcookies, a, cookie) ELSE pcookies
    /\ ppc' = [ppc EXCEPT ![a] = IF io >= 2 /\ store_ok THEN "loop" ELSE "closed"]
    /\ UNCHANGED <<pauth, pdispatched, pread, pdone, ControllerVars, ToolVars>>

\* A variant to compare with: a task that goes back to the socket while the
\* handler of the message before is still running.
CanRecvWhileHandling(pc) == pc \in {"loop", "matched"}

\* run reads the next header at the top of its loop only: every arm of the
\* match is awaited (or panics) before the loop comes round.
CanRecv(pc) == pc = "loop"

\* recv::<Header> returns a header and the match picks its arm.
run_recv_header(a, message_type) ==
    /\ CanRecv(ppc[a])
    /\ pread[a] < MaxMessages
    /\ pread' = [pread EXCEPT ![a] = pread[a] + 1]
    /\ pdispatched' = [pdispatched EXCEPT ![a] = message_type]
    /\ ppc' = [ppc EXCEPT ![a] = "matched"]
    /\ UNCHANGED <<pcookies, pauth, pdone, ControllerVars, ToolVars>>

\* recv::<Header> fails (the peer closed the stream, or sent a bad header).
run_recv_err(a) ==
    /\ ppc[a] = "loop"
    /\ ppc' = [ppc EXCEPT ![a] = "closed"]
    /\ UNCHANGED <<pcookies, pauth, pdispatched, pread, pdone, ControllerVars, ToolVars>>

\* Every arm of the match but NodeIdHandshake is todo!(): the task panics.
run_todo(a) ==
    /\ ppc[a] = "matched"
    /\ pdispatched[a] \in TodoTypes
    /\ ppc' = [ppc EXCEPT ![a] = "panicked"]
    /\ pdone' = [pdone EXCEPT ![a] = pread[a]]
    /\ UNCHANGED <<pcookies, pauth, pdispatched, pread, ControllerVars, ToolVars>>

\* rx: how many body reads succeed; io: how many writes succeed.
handle_node_id_handshake_result(a, cs, is_query, is_response, rx, io, response, store_ok) ==
    IF is_query /\ (rx < 1 \/ io < 2)
    THEN [ret |-> "Err", cookies |-> cs, verified |-> FALSE]
    ELSE IF ~is_response
    THEN [ret |-> "Ok", cookies |-> cs, verified |-> FALSE]
    ELSE IF rx < (IF is_query THEN 2 ELSE 1) \/ ~store_ok
    THEN [ret |-> "Err", cookies |-> cs, verified |-> FALSE]
    ELSE IF cookie_for_socket_addr(cs, a) = NoCookie
    THEN [ret |-> "Err", cookies |-> cs, verified |-> FALSE]
    ELSE IF ~Verify(response.public, cookie_for_socket_addr(cs, a), response.signature)
    THEN [ret |-> "Err", cookies |-> cookies_after_lookup(cs, a), verified |-> FALSE]
    ELSE [ret |-> "Ok", cookies |-> cookies_after_lookup(cs, a), verified |-> TRUE]

handle_node_id_handshake(a, is_query, is_response, rx, io, response, store_ok) ==
    /\ ppc[a] = "matched"
    /\ pdispatched[a] = "NodeIdHandshake"
    /\ LET r == handle_node_id_handshake_result(a, pcookies, is_query, is_response,
                                                rx, io, response, store_ok)
       IN /\ pcookies' = r.cookies
          /\ pauth' = [pauth EXCEPT ![a] = pauth[a] \/ r.verified]
          /\ ppc' = [ppc EXCEPT ![a] = IF r.ret = "Ok" THEN "loop" ELSE "closed"]
    /\ pdone' = [pdone EXCEPT ![a] = pread[a]]
    /\ UNCHANGED <<pdispatched, pread, ControllerVars, ToolVars>>

InitPeer ==
    /\ ControllerInit
    /\ validate_handshakes = [a \in Addrs |-> TRUE]
    /\ PeerInit
    /\ WorkIdle
    /\ VanityIdle
    /\ ClassifyIdle
    /\ StartIdle

NextPeer ==
    \E a \in Addrs :
        \/ \E c \in Cookies, io \in 0..2, ok \in BOOLEAN : initial_handshake(a, c, io, ok)
        \/ \E mt \in MessageTypes : run_recv_header(a, mt)
        \/ run_recv_err(a)
        \/ run_todo(a)
        \/ \E q \in BOOLEAN, r \in BOOLEAN, rx \in 0..2, io \in 0..2,
              resp \in Responses \ {NoResponse}, ok \in BOOLEAN :
                handle_node_id_handshake(a, q, r, rx, io, resp, ok)

SpecPeer == InitPeer /\ [][NextPeer]_vars

\* The task is scheduled whenever it can run; what the remote peer sends, and
\* when, is left open.
SpecPeerFair == SpecPeer /\ \A a \in Addrs : WF_vars(run_todo(a))

(***************************************************************************)
(* Work (src/src/work.rs).  A work is WorkLen bytes, a subject a byte      *)
(* string, a difficulty an unsigned integer below DifficultyMod.  blake2b  *)
(* stands for the digest: a fixed function of the bytes in their order.    *)
(***************************************************************************)
Bytes == 0..MaxByte

Works == [1..WorkLen -> Bytes]

Subjects == [1..1 -> Bytes]

Difficulties == 0..(DifficultyMod - 1)

reverse(bytes) == [i \in 1..Len(bytes) |-> bytes[Len(bytes) + 1 - i]]

RECURSIVE blake2b(_)
blake2b(bytes) ==
    IF bytes = <<>> THEN 0
    ELSE (blake2b(SubSeq(bytes, 1, Len(bytes) - 1)) * 3 + bytes[Len(bytes)] + 1) % DifficultyMod

\* Difficulty::from_le_slice of the digest: the integer the digest encodes.
from_le_slice(hash) == hash

\* A stricter comparison, to compare with.
is_strictly_more_than(difficulty, threshold) == difficulty > threshold

\* Difficulty::is_more_than
is_more_than(difficulty, threshold) == difficulty >= threshold

get_difficulty(work, subject) == from_le_slice(blake2b(reverse(work) \o subject))

verify(work, subject, threshold) == is_more_than(get_difficulty(work, subject), threshold)

NoWork == [some |-> FALSE, work |-> zero]

\* An attempt that hands back its candidate unverified, to compare with.
attempt_unverified(work, subject, threshold) == [some |-> TRUE, work |-> work]

\* work: the candidate Work::random() draws.
attempt(work, subject, threshold) ==
    IF verify(work, subject, threshold) THEN [some |-> TRUE, work |-> work] ELSE NoWork

\* One turn of the loop of generate: an attempt, then return or continue.
generate(work) ==
    /\ wpc \in {"start", "loop"}
    /\ wattempts < MaxAttempts
    /\ LET r == attempt(work, wsubject, wthreshold) IN
        /\ wpc' = IF r.some THEN "returned" ELSE "loop"
        /\ wresult' = IF r.some THEN r.work ELSE wresult
    /\ wwork' = work
    /\ wverified' = verify(work, wsubject, wthreshold)
    /\ wattempts' = wattempts + 1
    /\ UNCHANGED <<wsubject, wthreshold, ControllerVars, PeerVars, VanityVars, ClassifyVars, StartVars>>

WorkInit ==
    /\ wpc = "start" /\ wsubject \in Subjects /\ wthreshold \in Difficulties
    /\ wwork = zero /\ wverified = FALSE /\ wresult = zero /\ wattempts = 0

InitWork ==
    /\ ControllerInit
    /\ validate_handshakes = [a \in Addrs |-> TRUE]
    /\ PeerInit
    /\ WorkInit
    /\ VanityIdle
    /\ ClassifyIdle
    /\ StartIdle

NextWork == \E work \in Works : generate(work)

SpecWork == InitWork /\ [][NextWork]_vars

(***************************************************************************)
(* Vanity (src/src/vanity.rs).  start spawns the worker threads, each with *)
(* a clone of the sender; collect receives from the channel until its      *)
(* limit is used up.  CheckCount stands for check_count (10 000),          *)
(* ChannelCap for the channel's capacity (100), UsizeMod for 2^64.         *)
(***************************************************************************)
\* A worker that never sees the channel closed, to compare with.
is_closed_never(rx) == FALSE

\* Sender::is_closed: the receiver was closed or dropped.
is_closed(rx) == rx = "closed"

\* top of `while !tx.is_closed()`
worker_check(w) ==
    /\ vpc[w] = "check"
    /\ vpc' = [vpc EXCEPT ![w] = IF is_closed(vrx) THEN "exited" ELSE "batch"]
    /\ vi' = [vi EXCEPT ![w] = 0]
    /\ UNCHANGED <<vrx, vchan, vsince, vcounter, vbuild, vcpc, vlimit0, vlimit, vcollected,
                   ControllerVars, PeerVars, WorkVars, ClassifyVars, StartVars>>

\* One turn of the for loop.  good: single_attempt found a match, which is
\* sent: blocking_send fails when the receiver is gone, queues the result
\* when there is room, and blocks otherwise.
worker_attempt(w, good) ==
    /\ vpc[w] = "batch"
    /\ vi[w] < CheckCount
    /\ vi' = [vi EXCEPT ![w] = vi[w] + 1]
    /\ vsince' = [vsince EXCEPT ![w] = IF vrx = "closed" THEN vsince[w] + 1 ELSE vsince[w]]
    /\ vpc' = [vpc EXCEPT ![w] =
                 IF ~good THEN "batch"
                 ELSE IF vrx = "closed" THEN "exited"
                 ELSE IF vchan < ChannelCap THEN "batch"
                 ELSE "sending"]
    /\ vchan' = IF good /\ vrx = "open" /\ vchan < ChannelCap THEN vchan + 1 ELSE vchan
    /\ UNCHANGED <<vrx, vcounter, vbuild, vcpc, vlimit0, vlimit, vcollected,
                   ControllerVars, PeerVars, WorkVars, ClassifyVars, StartVars>>

\* A blocked blocking_send completes: with an error once the receiver is
\* gone, with the result queued once there is room.
worker_send(w) ==
    /\ vpc[w] = "sending"
    /\ vrx = "closed" \/ vchan < ChannelCap
    /\ vpc' = [vpc EXCEPT ![w] = IF vrx = "closed" THEN "exited" ELSE "batch"]
    /\ vchan' = IF vrx = "closed" THEN vchan ELSE vchan + 1
    /\ UNCHANGED <<vrx, vi, vsince, vcounter, vbuild, vcpc, vlimit0, vlimit, vcollected,
                   ControllerVars, PeerVars, WorkVars, ClassifyVars, StartVars>>

\* The for loop is through: *c += self.check_count, back to the while.
worker_batch_end(w) ==
    /\ vpc[w] = "batch"
    /\ vi[w] = CheckCount
    /\ vcounter' = IF vcounter + CheckCount > CounterCap THEN CounterCap ELSE vcounter + CheckCount
    /\ vpc' = [vpc EXCEPT ![w] = "check"]
    /\ UNCHANGED <<vrx, vchan, vi, vsince, vbuild, vcpc, vlimit0, vlimit, vcollected,
                   ControllerVars, PeerVars, WorkVars, ClassifyVars, StartVars>>

\* `limit -= 1` on a usize: at 0 a debug build panics, a release build wraps.
limit_minus_one(limit, build) ==
    IF limit = 0 /\ build = "debug" THEN [panic |-> TRUE, limit |-> limit]
    ELSE [panic |-> FALSE, limit |-> (limit - 1) % UsizeMod]

\* One turn of the while loop of collect: a result is received and pushed,
\* limit is decremented, and collect returns when it reached 0.  Returning
\* (or unwinding) drops the receiver.
collect_recv ==
    /\ vcpc = "recv"
    /\ vchan > 0
    /\ vchan' = vchan - 1
    /\ vcollected' = vcollected + 1
    /\ LET r == limit_minus_one(vlimit, vbuild) IN
        /\ vlimit' = r.limit
        /\ vcpc' = IF r.panic THEN "panicked" ELSE IF r.limit = 0 THEN "returned" ELSE "recv"
        /\ vrx' = IF r.panic \/ r.limit = 0 THEN "closed" ELSE vrx
    /\ UNCHANGED <<vpc, vi, vsince, vcounter, vbuild, vlimit0,
                   ControllerVars, PeerVars, WorkVars, ClassifyVars, StartVars>>

\* A caller of start that holds the receiver itself takes a result ...
rx_recv ==
    /\ vcpc = "caller"
    /\ vchan > 0
    /\ vchan' = vchan - 1
    /\ UNCHANGED <<vrx, vpc, vi, vsince, vcounter, vbuild, vcpc, vlimit0, vlimit, vcollected,
                   ControllerVars, PeerVars, WorkVars, ClassifyVars, StartVars>>

\* ... or closes or drops the receiver.
rx_drop ==
    /\ vcpc = "caller"
    /\ vrx' = "closed"
    /\ vcpc' = "dropped"
    /\ UNCHANGED <<vchan, vpc, vi, vsince, vcounter, vbuild, vlimit0, vlimit, vcollected,
                   ControllerVars, PeerVars, WorkVars, ClassifyVars, StartVars>>

\* After start: the workers run, the channel is empty.  collect(limit) has
\* called start, or another caller of start holds the receiver.
VanityInit ==
    /\ vrx = "open" /\ vchan = 0
    /\ vpc = [w \in Workers |-> "check"]
    /\ vi = [w \in Workers |-> 0]
    /\ vsince = [w \in Workers |-> 0]
    /\ vcounter = 0
    /\ vbuild \in {"debug", "release"}
    /\ \/ vcpc = "recv" /\ vlimit0 \in 0..MaxLimit
       \/ vcpc = "caller" /\ vlimit0 = 0
    /\ vlimit = vlimit0
    /\ vcollected = 0

InitVanity ==
    /\ ControllerInit
    /\ validate_handshakes = [a \in Addrs |-> TRUE]
    /\ PeerInit
    /\ WorkIdle
    /\ VanityInit
    /\ ClassifyIdle
    /\ StartIdle

WorkerNext(w) ==
    \/ worker_check(w)
    \/ \E good \in BOOLEAN : worker_attempt(w, good)
    \/ worker_send(w)
    \/ worker_batch_end(w)

NextVanity ==
    \/ \E w \in Workers : WorkerNext(w)
    \/ collect_recv
    \/ rx_recv
    \/ rx_drop

SpecVanity == InitVanity /\ [][NextVanity]_vars

\* Every worker is a thread of its own and keeps running.
SpecVanityFair == SpecVanity /\ \A w \in Workers : WF_vars(WorkerNext(w))

(***************************************************************************)
(* process_block_with_previous, the Some(previous_block) arm               *)
(* (src/src/node/controller/messages.rs, lines 274-296): is_send, the      *)
(* amount, decide_link_type and the match on the link.  Balances are       *)
(* unsigned integers below RaiMod.  StateBlock::decide_link_type is not    *)
(* among the sources; it is the classification table of the specification, *)
(* with `other` for what it leaves in the link where the table has no row. *)
(***************************************************************************)
RaiMod == MaxRai + 1

Rais == 0..MaxRai

\* Rai - Rai
RaiSub(a, b) == [value |-> (a - b) % RaiMod, underflow |-> a < b]

\* The subtraction the other way round, to compare with.
amount_swapped(is_send, prev, new) == IF is_send THEN RaiSub(new, prev) ELSE RaiSub(prev, new)

amount_of(is_send, prev, new) == IF is_send THEN RaiSub(prev, new) ELSE RaiSub(new, prev)

decide_link_type(is_send, amount, link, other) ==
    IF is_send THEN "DestinationAccount"
    ELSE IF amount > 0 THEN "Source"
    ELSE IF link = 0 THEN "Nothing"
    ELSE other

process_block_with_previous(prev, new, link, other) ==
    LET is_send == new < prev
        amount == amount_of(is_send, prev, new)
        decided == decide_link_type(is_send, amount.value, link, other)
    IN  [ret |-> IF decided = "Unsure" THEN "Panic" ELSE "Ok",
         link |-> decided, amount |-> amount.value, underflow |-> amount.underflow]

classify(other) ==
    /\ kpc = "start"
    /\ kres' = process_block_with_previous(kprev, knew, klink, other)
    /\ kpc' = "done"
    /\ UNCHANGED <<kprev, knew, klink, ControllerVars, PeerVars, WorkVars, VanityVars, StartVars>>

ClassifyInit ==
    /\ kpc = "start" /\ kprev \in Rais /\ knew \in Rais /\ klink \in {0, 1}
    /\ kres = NoResult

InitClassify ==
    /\ ControllerInit
    /\ validate_handshakes = [a \in Addrs |-> TRUE]
    /\ PeerInit
    /\ WorkIdle
    /\ VanityIdle
    /\ ClassifyInit
    /\ StartIdle

NextClassify == \E other \in {"Nothing", "Source", "Unsure"} : classify(other)

SpecClassify == InitClassify /\ [][NextClassify]_vars

(***************************************************************************)
(* Vanity::start (src/src/vanity.rs): validate, then the attempts counter  *)
(* and the channel, then one thread::spawn per task, then Ok.  A search    *)
(* string is a sequence of characters; PatternChars has two characters of  *)
(* the address alphabet and one, "l", that is not in it.                   *)
(***************************************************************************)
ALPHABET ==
    {"1", "3", "4", "5", "6", "7", "8", "9", "a", "b", "c", "d", "e", "f", "g", "h",
     "i", "j", "k", "m", "n", "o", "p", "q", "r", "s", "t", "u", "w", "x", "y", "z"}

PatternChars == {"1", "z", "l"}

Patterns == UNION {[1..n -> PatternChars] : n \in 0..MaxPattern}

MatchKinds == {"StartOrEnd", "Start", "End", "Regex"}

Matches == [kind : MatchKinds, s : Patterns]

\* Regex::new("^[ALPHABET]*$").is_match(s): every character of s is in the class.
is_match(s) == \A i \in 1..Len(s) : s[i] \in ALPHABET

\* A validate to compare with: it accepts every search.
validate_accepts_all(m) == "Ok"

validate(m) ==
    IF m.kind = "Regex" THEN "Ok"
    ELSE IF is_match(m.s) THEN "Ok"
    ELSE "Err"

\* self.validate()?
start_validate ==
    /\ mpc = "start"
    /\ IF validate(matches) = "Err"
        THEN mret' = "Err" /\ mpc' = "returned"
        ELSE mret' = mret /\ mpc' = "validated"
    /\ UNCHANGED <<matches, tasks, mchannel, mspawned,
                   ControllerVars, PeerVars, WorkVars, VanityVars, ClassifyVars>>

\* The counter, tasks = self.tasks.unwrap_or(cpus), and the channel.
start_channel(n) ==
    /\ mpc = "validated"
    /\ tasks' = n
    /\ mchannel' = TRUE
    /\ mpc' = "spawning"
    /\ UNCHANGED <<matches, mspawned, mret,
                   ControllerVars, PeerVars, WorkVars, VanityVars, ClassifyVars>>

\* One turn of `for _ in 0..tasks`.
start_spawn ==
    /\ mpc = "spawning"
    /\ mspawned < tasks
    /\ mspawned' = mspawned + 1
    /\ UNCHANGED <<mpc, matches, tasks, mchannel, mret,
                   ControllerVars, PeerVars, WorkVars, VanityVars, ClassifyVars>>

\* Ok((rx, attempts))
start_return ==
    /\ mpc = "spawning"
    /\ mspawned = tasks
    /\ mret' = "Ok"
    /\ mpc' = "returned"
    /\ UNCHANGED <<matches, tasks, mchannel, mspawned,
                   ControllerVars, PeerVars, WorkVars, VanityVars, ClassifyVars>>

StartInit ==
    /\ mpc = "start" /\ matches \in Matches /\ tasks = 0
    /\ mchannel = FALSE /\ mspawned = 0 /\ mret = "none"

InitStart ==
    /\ ControllerInit
    /\ validate_handshakes = [a \in Addrs |-> TRUE]
    /\ PeerInit
    /\ WorkIdle
    /\ VanityIdle
    /\ ClassifyIdle
    /\ StartInit

NextStart ==
    \/ start_validate
    \/ \E n \in 0..MaxTasks : start_channel(n)
    \/ start_spawn
    \/ start_return

SpecStart == InitStart /\ [][NextStart]_vars

(***************************************************************************)
(* Properties of Spec.  `last` holds the call made last, with the cookies  *)
(* and the ledger it started from, so a state predicate over `last` and    *)
(* the current State is a postcondition of that call.                      *)
(***************************************************************************)
PublishedState == last.op = "handle_publish" /\ last.holder = "State"

PublishedValid(call) ==
    /\ call.op = "handle_publish" /\ call.holder = "State"
    /\ verify_self_signature(call.state_block)
    /\ call.store_ok

NoPrevious(l, b) == b.previous # 0 /\ get_block_by_hash(l, b.previous) = {}

\* C1: after handle_publish returns for a state block whose self-signature
\* does not verify, the store holds no block with that block's hash and no
\* add_block was performed (the ledger is the one the call started from).
C1_BadSignatureNotStored ==
    (PublishedState /\ ~verify_self_signature(last.state_block))
        => /\ get_block_by_hash(ledger, Hash(last.state_block.block)) = {}
           /\ ledger = last.pre_ledger

C1_Witness ==
    /\ PublishedState /\ last.ret = "Ok"
    /\ last.state_block.signer = "zero"
    /\ last.state_block.block.previous # 0

\* C2 as claimed: when a valid state block is handed to handle_publish again
\* right after it was admitted, the second call reports "already exists" and
\* leaves the store as the first admission left it, the block in it.
C2_Original ==
    [][(/\ PublishedValid(last) /\ PublishedValid(last')
        /\ last'.state_block = last.state_block
        /\ last' # last)
          => /\ last'.report = "exists"
             /\ ledger' = ledger
             /\ block_existed(ledger', Hash(last.state_block.block))]_vars

\* C3: in every reachable state no account has two stored blocks marked head,
\* and every block marked head is the one entry of the index under its hash.
C3_AtMostOneHead ==
    /\ \A acc \in Accounts : Cardinality(HeadsOf(ledger, acc)) <= 1
    /\ \A e \in ledger : e.is_head => get_block_by_hash(ledger, e.hash) = {e}

C3_Witness ==
    /\ PublishedValid(last) /\ last.ret = "Ok"
    /\ last.state_block.block.previous = 0

\* C4: in every reachable state an account with a stored block has exactly
\* one stored block marked head.
C4_ExactlyOneHead ==
    \A acc \in Accounts :
        (\E e \in ledger : e.block.account = acc) => Cardinality(HeadsOf(ledger, acc)) = 1

C4_Witness ==
    /\ PublishedValid(last) /\ last.ret = "Ok"
    /\ last.state_block.block.previous = ParentHash
    /\ last.state_block.block.account = "a2"

\* A handshake call that reached the cookie lookup of its response half.
HandledResponse ==
    /\ last.op = "handle_handshake" /\ last.is_response
    /\ last.response # NoResponse
    /\ ~(last.is_query /\ last.query = NoCookie)
    /\ last.store_ok

ResponseVerifies ==
    Verify(last.response.public, last.pre_cookies[last.addr], last.response.signature)

\* C5 as claimed: a response handled while a cookie is stored for the peer
\* succeeds only if its signature verifies under the received public key over
\* that cookie, whatever the controller's configuration, and (no write of the
\* call's own being at stake) succeeds if it does.
C5_Original ==
    (HandledResponse /\ last.pre_cookies[last.addr] # NoCookie)
        => /\ (last.ret = "Ok" => ResponseVerifies)
           /\ ((ResponseVerifies /\ ~last.is_query) => last.ret = "Ok")

C9_Original ==
    (PublishedState /\ ~last.store_ok) => last.ret = "Err"

\* C10 as claimed: when two peers publish the same valid, not yet stored state
\* block one after the other, exactly one of the two calls appends it and the
\* other finds it stored.
C10_Original ==
    [][(/\ PublishedValid(last) /\ PublishedValid(last')
        /\ last'.state_block = last.state_block
        /\ last'.addr # last.addr
        /\ ~block_existed(last.pre_ledger, Hash(last.state_block.block)))
          => /\ Cardinality(get_block_by_hash(ledger', Hash(last.state_block.block))) = 1
             /\ {last.report, last'.report} = {"will_add", "exists"}]_vars

(***************************************************************************)
(* Properties of SpecPeer.                                                  *)
(***************************************************************************)
\* C6: the peer task matches a non-handshake message type (Keepalive,
\* Publish, ConfirmReq, ...) only after a response of that peer has been
\* received and its signature verified against our cookie.
C6_Original ==
    \A a \in Addrs : pdispatched[a] \in TodoTypes => pauth[a]

\* C11: a peer task reads the header of a message only when the handling of
\* every message that arrived before it has ended: the headers received are
\* the messages handled, plus the one being handled, and handling ends in
\* arrival order.
C11_ArrivalOrder ==
    \A a \in Addrs : pread[a] = pdone[a] + (IF ppc[a] = "matched" THEN 1 ELSE 0)

C11_Witness ==
    \E a \in Addrs : pread[a] = 2 /\ pdone[a] = 1 /\ ppc[a] = "matched"

\* C16 as claimed: a peer task waiting for the next header always leaves the
\* wait, be it with a message, an error or the deadline passing.
C16_Original ==
    \A a \in Addrs : (ppc[a] = "loop") ~> (ppc[a] # "loop")

(***************************************************************************)
(* More properties of Spec.                                                *)
(***************************************************************************)
\* C12 as claimed: handle_publish of a Send, Receive, Open or Change block
\* holder returns Ok, without a panic, and leaves the store as it was.
C12_Original ==
    (last.op = "handle_publish" /\ last.holder \in LegacyHolders)
        => (last.ret = "Ok" /\ ledger = last.pre_ledger)

\* C13 as claimed: handle_handshake panics on no input, a header whose query
\* or response flag is set while the body is absent included.
C13_Original ==
    last.op = "handle_handshake" => last.ret # "Panic"

(***************************************************************************)
(* Properties of SpecWork.                                                 *)
(***************************************************************************)
\* C14: for every work, subject and threshold, verify returns true exactly
\* when the difficulty of the work for the subject is at least the threshold,
\* a difficulty equal to the threshold included.
C14_VerifyIffAtLeast ==
    wattempts > 0 =>
        (wverified <=> get_difficulty(wwork, wsubject) >= wthreshold)

C14_Witness ==
    /\ wattempts > 0 /\ wverified
    /\ wthreshold > 0
    /\ get_difficulty(wwork, wsubject) = wthreshold

\* C15: a turn of generate returns exactly when the candidate it drew
\* verifies, and the work returned is that candidate; so a returned work
\* verifies and no candidate that failed its attempt is returned.
C15_GenerateReturnsVerified ==
    [][wattempts' # wattempts =>
        /\ (wpc' = "returned") <=> verify(wwork', wsubject, wthreshold)
        /\ (wpc' = "returned") => (wresult' = wwork' /\ verify(wresult', wsubject, wthreshold))]_vars

C15_Witness ==
    /\ wpc = "returned" /\ wattempts >= 2
    /\ wthreshold > 0
    /\ verify(wresult, wsubject, wthreshold)

(***************************************************************************)
(* Properties of SpecVanity and SpecVanityFair.                            *)
(***************************************************************************)
\* C17: once the receiver is closed, no worker makes more than CheckCount
\* further attempts, and every worker exits, one blocked in a send on a full
\* channel included.
C17_WorkersExit ==
    /\ [](\A w \in Workers : vsince[w] <= CheckCount)
    /\ ((vrx = "closed") ~> (\A w \in Workers : vpc[w] = "exited"))

C17_Witness ==
    /\ vrx = "closed"
    /\ \E w \in Workers : vpc[w] = "exited" /\ vsince[w] = CheckCount
    /\ \E w \in Workers : vpc[w] = "sending"

\* C18 as claimed: collect never holds more than `limit` results, does not
\* panic, and returns with exactly `limit` of them, for limit = 0 too.
C18_Original ==
    /\ vcollected <= vlimit0
    /\ vcpc # "panicked"
    /\ vcpc = "returned" => vcollected = vlimit0

(***************************************************************************)
(* Properties of Spec: blocks that name a previous block.                  *)
(***************************************************************************)
\* C19: after handle_publish of a state block that names a previous block
\* which is not stored, the block is not in the store.
C19_UnknownPreviousNotAdded ==
    (PublishedState /\ NoPrevious(last.pre_ledger, last.state_block.block))
        => get_block_by_hash(ledger, Hash(last.state_block.block)) = {}

C19_Witness ==
    /\ PublishedValid(last) /\ last.ret = "Ok"
    /\ last.state_block.block.previous = ParentHash
    /\ last.state_block.block.account = "a1"
    /\ NoPrevious(last.pre_ledger, last.state_block.block)
    /\ get_block_by_hash(ledger, Hash(last.state_block.block)) = {}

(***************************************************************************)
(* Properties of Spec and SpecPeer: the life of a cookie.                  *)
(***************************************************************************)
\* C28: handling a response for a peer that has a cookie stored consumes the
\* cookie: after the call State holds none for that peer, so a further
\* response of the peer finds no cookie to be verified against.
C28_CookieConsumed ==
    (HandledResponse /\ last.pre_cookies[last.addr] # NoCookie)
        => cookies[last.addr] = NoCookie

C28_Witness ==
    /\ HandledResponse /\ last.pre_cookies[last.addr] # NoCookie
    /\ ResponseVerifies /\ last.ret = "Ok"
    /\ cookies[last.addr] = NoCookie

\* C29 as claimed: once a peer task has left run, by an error or a panic,
\* State holds no cookie for the peer's address.
C29_Original ==
    \A a \in Addrs : ppc[a] \in {"closed", "panicked"} => pcookies[a] = NoCookie

\* C30 as claimed: a handshake initiation leaves its cookie, and only it,
\* stored for the peer and the cookies of other peers as they were; and a
\* response is accepted exactly when it is signed over the cookie stored
\* last, one signed over an earlier cookie being rejected.
C30_Original ==
    /\ (last.op = "send_handshake" /\ last.ret = "Ok")
        => /\ cookies[last.addr] = last.query
           /\ \A b \in Addrs \ {last.addr} : cookies[b] = last.pre_cookies[b]
    /\ (HandledResponse /\ ~last.is_query /\ last.pre_cookies[last.addr] # NoCookie)
        => (last.ret = "Err" <=> ~ResponseVerifies)

(***************************************************************************)
(* Properties of Spec: opening blocks.                                     *)
(***************************************************************************)
\* The block a non-zero link of an opening block names as its source.
SourceHash(b) == UnknownHash

NoSource(l, b) == b.link = 0 \/ get_block_by_hash(l, SourceHash(b)) = {}

HandledQuery == last.op = "handle_handshake" /\ last.is_query

C32_Original ==
    (HandledQuery /\ last.query \in Cookies /\ last.ret = "Ok") =>
        /\ Len(last.sent) = 2
        /\ last.sent[2].kind = "response"

(***************************************************************************)
(* C33: handle_frontier_req leaves frontier_stream true for its            *)
(* connection, and no handler called afterwards, handle_frontier_resp      *)
(* included, sets the flag of a connection back to false.                  *)
(***************************************************************************)
C33_FrontierStreamPermanent ==
    [][/\ \A a \in Addrs : frontier_stream[a] => frontier_stream'[a]
       /\ last'.op = "handle_frontier_req" => frontier_stream'[last'.addr]]_vars

\* handle_frontier_resp was called on a connection that is in frontier mode.
C33_Witness ==
    /\ last.op = "handle_frontier_resp"
    /\ frontier_stream[last.addr]
    /\ \E a \in Addrs : ~frontier_stream[a]

(***************************************************************************)
(* C34: a Start, End or StartOrEnd search whose string has a character     *)
(* outside the address alphabet makes validate fail; start returns the     *)
(* error, and a call that returned an error has created no channel and     *)
(* spawned no thread.  A Regex search is never rejected.                   *)
(***************************************************************************)
Unsatisfiable(m) ==
    /\ m.kind \in {"StartOrEnd", "Start", "End"}
    /\ \E i \in 1..Len(m.s) : m.s[i] \notin ALPHABET

C34_StartRejectsUnsatisfiable ==
    /\ Unsatisfiable(matches) =>
        /\ mpc \in {"start", "returned"}
        /\ mpc = "returned" => mret = "Err"
    /\ mret = "Err" => (~mchannel /\ mspawned = 0 /\ tasks = 0)
    /\ matches.kind = "Regex" => mret # "Err"

\* The search of the test: Match::start("l") has been rejected by start.
C34_Witness ==
    /\ matches = [kind |-> "Start", s |-> <<"l">>]
    /\ mpc = "returned" /\ mret = "Err"
    /\ ~mchannel /\ mspawned = 0

(***************************************************************************)
(* C35: send_handshake stores the cookie under the peer's address before   *)
(* it writes the query body: a call that wrote a query body carrying       *)
(* cookie C has State mapping the peer's address to C, and a call whose    *)
(* set_cookie failed wrote no query body and left the cookies as they      *)
(* were.                                                                   *)
(***************************************************************************)
SentQuery(call) == {call.sent[i].cookie : i \in {j \in 1..Len(call.sent) : call.sent[j].kind = "query"}}

C35_CookieStoredBeforeQuerySent ==
    last.op = "send_handshake" =>
        /\ \A c \in SentQuery(last) :
            /\ c = last.query
            /\ last.store_ok
            /\ cookie_for_socket_addr(cookies, last.addr) = c
        /\ ~last.store_ok => (SentQuery(last) = {} /\ cookies = last.pre_cookies /\ last.ret = "Err")

\* A query body went out, and its cookie is the one now stored for the peer
\* in place of what was stored before.
C35_Witness ==
    /\ last.op = "send_handshake"
    /\ last.sent = <<HeaderMsg("query"), QueryMsg(last.query)>>
    /\ cookie_for_socket_addr(cookies, last.addr) = last.query
    /\ last.pre_cookies[last.addr] # last.query

=============================================================================
